---- MODULE Spec2Model ----
(***************************************************************************)
(* detect-compression: DetectReader / DetectWriter (src/src/lib.rs).       *)
(*                                                                         *)
(* One path is modelled.  Its extension selects the codec, the writer is   *)
(* a chain  codec -> BufWriter -> wrapper -> File,  the reader a chain     *)
(* BufReader -> decoder -> wrapper -> File.  Bytes are small integers; a   *)
(* gzip or LZ4 stream is a sequence of such integers with a header, one    *)
(* coded byte per payload byte, an end marker and a checksum trailer.      *)
(* Every raw write to the file may fail or be short.                       *)
(***************************************************************************)
EXTENDS Integers, Sequences, FiniteSets, TLC

VARIABLES ext, exists, disk, pre, wphase, w, accepted, obs, rphase, r, got, lastOp

vars == <<ext, exists, disk, pre, wphase, w, accepted, obs, rphase, r, got, lastOp>>

(***************************************************************************)
(* Bounds                                                                  *)
(***************************************************************************)
MaxByte == 1
MaxLen == 2
BufCap == 2
RCap == 2
MaxChunk == MaxLen
MaxAsk == RCap

Byte == 0..MaxByte

RECURSIVE SeqsUpTo(_, _)
SeqsUpTo(S, n) ==
  IF n = 0 THEN {<<>>}
  ELSE LET shorter == SeqsUpTo(S, n - 1)
       IN shorter \cup {Append(q, x) : q \in {t \in shorter : Len(t) = n - 1}, x \in S}

Chunks == SeqsUpTo(Byte, MaxChunk) \ {<<>>}

Drop(s, k) == SubSeq(s, k + 1, Len(s))
Take(s, k) == SubSeq(s, 1, k)

RECURSIVE SumSeq(_)
SumSeq(s) == IF s = <<>> THEN 0 ELSE s[1] + SumSeq(Tail(s))

(***************************************************************************)
(* Path extension and compression level                                    *)
(***************************************************************************)
\* Path::extension() is an Option: <<>> is None, <<e>> is Some(e).
Exts == {<<>>, <<"gz">>, <<"lz4">>, <<"GZ">>, <<"Lz4">>, <<"txt">>}

Levels == {"None", "Minimum", "Maximum"}

\* match path.extension() of create_with_wrapper
CreateCodec(e) ==
  IF e # <<>> /\ e[1] = "gz" THEN "gz"
  ELSE IF e # <<>> /\ e[1] = "lz4" THEN "lz4"
  ELSE "id"

\* match path.extension() of open_with_wrapper
OpenCodec_nocase(e) ==
  IF e # <<>> /\ e[1] \in {"gz", "GZ"} THEN "gz"
  ELSE IF e # <<>> /\ e[1] \in {"lz4", "Lz4"} THEN "lz4"
  ELSE "id"

OpenCodec(e) ==
  IF e # <<>> /\ e[1] = "gz" THEN "gz"
  ELSE IF e # <<>> /\ e[1] = "lz4" THEN "lz4"
  ELSE "id"

\* flate2 Compression::none() / fast() / best()
CompressionNone == 0
CompressionFast == 1
CompressionBest == 9

into_flate2_compression(level) ==
  CASE level = "None" -> CompressionNone
    [] level = "Minimum" -> CompressionFast
    [] level = "Maximum" -> CompressionBest

\* Result<u32>: ok = FALSE is Err(InvalidInput)
into_lz4_level_subst(level) ==
  CASE level = "None" -> [ok |-> TRUE, v |-> 1]
    [] level = "Minimum" -> [ok |-> TRUE, v |-> 1]
    [] level = "Maximum" -> [ok |-> TRUE, v |-> 3]

into_lz4_level(level) ==
  CASE level = "None" -> [ok |-> FALSE, v |-> 0]
    [] level = "Minimum" -> [ok |-> TRUE, v |-> 1]
    [] level = "Maximum" -> [ok |-> TRUE, v |-> 3]

(***************************************************************************)
(* Stream formats                                                          *)
(***************************************************************************)
CrcMod == 5
Crc(data) == (SumSeq(data) + 3 * Len(data)) % CrcMod

GzMagic == 31
GzEnd == 3
DeflateCode(lvl, b) == 100 + 10 * lvl + b
IsDeflate(c) == c >= 100 /\ c < 200
InflateCode(c) == c % 10
Deflate(lvl, data) == [i \in 1..Len(data) |-> DeflateCode(lvl, data[i])]
GzTrailer(data) == <<200 + Crc(data), 300 + Len(data)>>

Lz4Magic == 4
Lz4EndMark == 40
Lz4Code(lvl, b) == 400 + 10 * lvl + b
IsLz4Code(c) == c >= 400 /\ c < 500
Lz4Uncode(c) == c % 10
Lz4Block(lvl, data) == [i \in 1..Len(data) |-> Lz4Code(lvl, data[i])]
Lz4Checksum(data) == 500 + Crc(data)

(***************************************************************************)
(* Write chain: File, wrapper, BufWriter.  An operation on a chain state s *)
(* yields the set of its possible outcomes [st, ok, ...].                  *)
(***************************************************************************)
\* File::write of the first n bytes of data
FileWrite(s, data, n) == [s EXCEPT !.disk = @ \o Take(data, n)]

\* the byte-counting wrapper: forwards to the file and counts what it passed on
WrapperWrite(s, data, n) == [FileWrite(s, data, n) EXCEPT !.count = @ + n]

\* what BufWriter::new(wf) sits on
Below_raw(s, data, n) == FileWrite(s, data, n)
Below(s, data, n) == WrapperWrite(s, data, n)

\* one write call on the layer below the BufWriter: Ok(n) with 1 <= n <= len, or Err
BelowWriteOutcomes(s, data) ==
  {[st |-> Below(s, data, n), ok |-> TRUE, n |-> n] : n \in 1..Len(data)}
    \cup {[st |-> s, ok |-> FALSE, n |-> 0]}

\* BufWriter::flush_buf: writes a prefix of the buffer, keeps the rest; Ok iff all went out
flush_buf(s) ==
  {[st |-> [Below(s, s.buf, k) EXCEPT !.buf = Drop(s.buf, k)],
    ok |-> (k = Len(s.buf))] : k \in 0..Len(s.buf)}

\* BufWriter::write
BufWrite(s, data) ==
  LET first == IF Len(s.buf) + Len(data) > BufCap
               THEN flush_buf(s)
               ELSE {[st |-> s, ok |-> TRUE]}
  IN UNION {IF ~p.ok THEN {[st |-> p.st, ok |-> FALSE, n |-> 0]}
            ELSE IF Len(data) >= BufCap THEN BelowWriteOutcomes(p.st, data)
            ELSE {[st |-> [p.st EXCEPT !.buf = @ \o data], ok |-> TRUE, n |-> Len(data)]}
            : p \in first}

\* BufWriter::flush: flush_buf, then the flush of the layer below (a no-op on a File)
BufFlush(s) == flush_buf(s)

\* Drop for BufWriter: flush_buf with the result discarded
BufDrop(s) == {o.st : o \in flush_buf(s)}

\* a loop of write calls on the BufWriter until data is written or a call fails;
\* rest is what was not handed over
RECURSIVE WriteAll(_, _)
WriteAll(s, data) ==
  IF data = <<>> THEN {[st |-> s, ok |-> TRUE, rest |-> <<>>]}
  ELSE UNION {IF o.ok THEN WriteAll(o.st, Drop(data, o.n))
              ELSE {[st |-> o.st, ok |-> FALSE, rest |-> data]}
              : o \in BufWrite(s, data)}

(***************************************************************************)
(* Gzip encoder (flate2::write::GzEncoder over its zio::Writer)            *)
(***************************************************************************)
\* GzEncoder::write_header: the header goes to the BufWriter on first use
GzWriteHeader(s) ==
  {[st |-> [o.st EXCEPT !.hdr = o.rest], ok |-> o.ok] : o \in WriteAll(s, s.hdr)}

\* zio::Writer::dump: hands the compressed output it holds to the BufWriter
ZioDump(s) ==
  {[st |-> [o.st EXCEPT !.zbuf = o.rest], ok |-> o.ok] : o \in WriteAll(s, s.zbuf)}

\* GzEncoder::write: header, dump of earlier output, then the input is compressed
GzWrite(s, data) ==
  UNION {IF ~h.ok THEN {[st |-> h.st, ok |-> FALSE, n |-> 0]}
         ELSE {IF ~d.ok THEN [st |-> d.st, ok |-> FALSE, n |-> 0]
               ELSE [st |-> [d.st EXCEPT !.zbuf = Deflate(d.st.lvl, data),
                                         !.all = @ \o data],
                     ok |-> TRUE, n |-> Len(data)]
               : d \in ZioDump(h.st)}
         : h \in GzWriteHeader(s)}

\* GzEncoder::flush: header, sync flush and dump, then BufWriter::flush
GzFlush(s) ==
  UNION {IF ~h.ok THEN {[st |-> h.st, ok |-> FALSE]}
         ELSE UNION {IF ~d.ok THEN {[st |-> d.st, ok |-> FALSE]}
                     ELSE BufFlush(d.st)
                     : d \in ZioDump(h.st)}
         : h \in GzWriteHeader(s)}

\* zio::Writer::finish: dump, end the deflate stream once, dump again
ZioFinish(s) ==
  UNION {IF ~d.ok \/ d.st.zdone THEN {[st |-> d.st, ok |-> d.ok]}
         ELSE ZioDump([d.st EXCEPT !.zbuf = <<GzEnd>>, !.zdone = TRUE])
         : d \in ZioDump(s)}

\* GzEncoder::try_finish: header, finish of the deflate stream, then the trailer
GzTryFinish(s) ==
  UNION {IF ~h.ok THEN {[st |-> h.st, ok |-> FALSE]}
         ELSE UNION {IF ~f.ok THEN {[st |-> f.st, ok |-> FALSE]}
                     ELSE {[st |-> [t.st EXCEPT !.crcw = Len(GzTrailer(f.st.all)) - Len(t.rest)],
                            ok |-> t.ok]
                           : t \in WriteAll(f.st, Drop(GzTrailer(f.st.all), f.st.crcw))}
                     : f \in ZioFinish(h.st)}
         : h \in GzWriteHeader(s)}

\* Drop for GzEncoder (try_finish, result discarded), then Drop for zio::Writer
\* (finish, result discarded), then Drop for BufWriter
GzDrop(s) ==
  UNION {UNION {BufDrop(f.st) : f \in ZioFinish(t.st)} : t \in GzTryFinish(s)}

(***************************************************************************)
(* LZ4 encoder (lz4::Encoder) and FinalizeLz4Encoder                       *)
(***************************************************************************)
\* EncoderBuilder::build: the frame header is written to the BufWriter;
\* ok = FALSE is a failure to set up the frame
Lz4Build(s) ==
  {[st |-> o.st, ok |-> o.ok] : o \in WriteAll(s, <<Lz4Magic>>)}
    \cup {[st |-> s, ok |-> FALSE]}

\* Encoder::write: the input is kept in the frame context until a block is cut
Lz4Write(s, data) ==
  {[st |-> [s EXCEPT !.raw = @ \o data, !.all = @ \o data], ok |-> TRUE, n |-> Len(data)]}

\* Encoder::flush: the pending input becomes a block handed to the BufWriter
\* (what a failed hand-over did not pass on is gone), then BufWriter::flush
Lz4Flush(s) ==
  UNION {IF ~o.ok THEN {[st |-> o.st, ok |-> FALSE]} ELSE BufFlush(o.st)
         : o \in WriteAll([s EXCEPT !.raw = <<>>], Lz4Block(s.lvl, s.raw))}

\* Encoder::finish: last block, end mark and content checksum to the BufWriter;
\* returns (W, result)
Lz4Finish(s) ==
  {[st |-> o.st, ok |-> o.ok]
   : o \in WriteAll([s EXCEPT !.raw = <<>>],
                    Lz4Block(s.lvl, s.raw) \o <<Lz4EndMark, Lz4Checksum(s.all)>>)}

\* FinalizeLz4Encoder::write / flush: self.0.as_mut().expect(..) then the encoder
FinLz4Write(s, data) ==
  IF s.slot THEN Lz4Write(s, data) ELSE {[st |-> [s EXCEPT !.expect = TRUE], ok |-> FALSE, n |-> 0]}

FinLz4Flush(s) ==
  IF s.slot THEN Lz4Flush(s) ELSE {[st |-> [s EXCEPT !.expect = TRUE], ok |-> FALSE]}

\* impl Finalize for FinalizeLz4Encoder: flush()?, take(), enc.finish().1; the W
\* returned by finish is dropped at the end of the statement
\* (fin lists the steps taken, finishRes is how the completion of the frame ended)
FinLz4Finalize_always(s) ==
  UNION {IF ~f.st.slot THEN {[st |-> [f.st EXCEPT !.expect = TRUE], ok |-> FALSE]}
         ELSE UNION {{[st |-> [d EXCEPT !.finishRes = IF e.ok THEN "ok" ELSE "err"],
                       ok |-> f.ok /\ e.ok]
                      : d \in BufDrop(e.st)}
                     : e \in Lz4Finish([f.st EXCEPT !.slot = FALSE,
                                                    !.fin = Append(@, "finish")])}
         : f \in FinLz4Flush([s EXCEPT !.fin = Append(@, "flush")])}

FinLz4Finalize_takefirst(s) ==
  UNION {IF ~f.ok THEN {[st |-> f.st, ok |-> FALSE]}
         ELSE UNION {{[st |-> [d EXCEPT !.finishRes = IF e.ok THEN "ok" ELSE "err"],
                       ok |-> e.ok]
                      : d \in BufDrop(e.st)}
                     : e \in Lz4Finish([f.st EXCEPT !.fin = Append(@, "finish")])}
         : f \in FinLz4Flush([s EXCEPT !.slot = FALSE, !.fin = Append(@, "flush")])}

FinLz4Finalize(s) ==
  UNION {IF ~f.ok THEN {[st |-> f.st, ok |-> FALSE]}
         ELSE IF ~f.st.slot THEN {[st |-> [f.st EXCEPT !.expect = TRUE], ok |-> FALSE]}
         ELSE UNION {{[st |-> [d EXCEPT !.finishRes = IF e.ok THEN "ok" ELSE "err"],
                       ok |-> e.ok]
                      : d \in BufDrop(e.st)}
                     : e \in Lz4Finish([f.st EXCEPT !.slot = FALSE,
                                                    !.fin = Append(@, "finish")])}
         : f \in FinLz4Flush([s EXCEPT !.fin = Append(@, "flush")])}

(***************************************************************************)
(* Box<dyn Finalize>: the three encoders behind one interface              *)
(***************************************************************************)
InnerWrite(s, data) ==
  CASE s.codec = "gz" -> GzWrite(s, data)
    [] s.codec = "lz4" -> FinLz4Write(s, data)
    [] OTHER -> BufWrite(s, data)

InnerFlush(s) ==
  CASE s.codec = "gz" -> GzFlush(s)
    [] s.codec = "lz4" -> FinLz4Flush(s)
    [] OTHER -> BufFlush(s)

\* trait Finalize: the default is flush; FinalizeLz4Encoder overrides it
InnerFinalize_noflush(s) == {[st |-> s, ok |-> TRUE]}

InnerFinalize(s) ==
  CASE s.codec = "lz4" -> FinLz4Finalize(s)
    [] OTHER -> InnerFlush(s)

\* release of the boxed encoder and of everything it owns
InnerDrop(s) ==
  CASE s.codec = "gz" -> GzDrop(s)
    [] s.codec = "lz4" -> IF s.slot THEN BufDrop(s) ELSE {s}
    [] OTHER -> BufDrop(s)

(***************************************************************************)
(* DetectWriter                                                            *)
(***************************************************************************)
Join(chain, d) ==
  [x \in DOMAIN chain \cup {"disk"} |-> IF x = "disk" THEN d ELSE chain[x]]

Chain(s) == [x \in DOMAIN s \ {"disk"} |-> s[x]]

\* File::create: an empty file; made lists what has been constructed, in order
RawFile ==
  [codec |-> "id", lvl |-> 0, hdr |-> <<>>, zbuf |-> <<>>, zdone |-> FALSE, crcw |-> 0,
   raw |-> <<>>, all |-> <<>>, slot |-> FALSE, expect |-> FALSE,
   buf |-> <<>>, count |-> 0, not_closed |-> FALSE, lost |-> FALSE,
   made |-> <<"file">>, fin |-> <<>>, finishRes |-> "none", disk |-> <<>>]

\* builder.new_wrapped_writer(f): a wrapper that has counted nothing
new_wrapped_writer(f) == [f EXCEPT !.made = Append(@, "wrap")]

\* BufWriter::new(wf): an empty buffer
BufWriterNew(wf) == [wf EXCEPT !.made = Append(@, "buf")]

\* let f = File::create(path)?; let wf = builder.new_wrapped_writer(f);
\* let w = BufWriter::new(wf);
NewBufWriter_nowrap == BufWriterNew(RawFile)

NewBufWriter == BufWriterNew(new_wrapped_writer(RawFile))

NoWriter == Chain([RawFile EXCEPT !.made = <<>>])

\* how often an item occurs in a list of steps
Times(steps, x) == Cardinality({i \in 1..Len(steps) : steps[i] = x})

\* DetectWriter { inner, not_closed: true }
NewDetectWriter_closed(inner) == inner
NewDetectWriter(inner) == [inner EXCEPT !.not_closed = TRUE]

\* impl Drop for DetectWriter
DropPanics_silent(s) == FALSE
DropPanics(s) == s.not_closed

\* end of a DetectWriter's life: Drop::drop, then the release of inner (which a
\* build that aborts on panic does not reach)
DetectDrop(s) ==
  {[panic |-> DropPanics(s), st |-> d]
   : d \in (InnerDrop(s) \cup (IF DropPanics(s) THEN {s} ELSE {}))}

\* `?` in the lz4 arm of create_with_wrapper: what is released is the BufWriter
\* (with the encoder, if one was begun); no DetectWriter exists yet
ReleaseUnbuilt_asWriter(s) == DetectDrop(NewDetectWriter(s))

ReleaseUnbuilt(s) == {[panic |-> FALSE, st |-> d] : d \in BufDrop(s)}

\* the match of create_with_wrapper on the BufWriter bw; the outcomes are
\* [res, panic, st]: res is "ok" (st is the DetectWriter), "invalid_input" or
\* "io_err" (st is what is left once the BufWriter has been released); panic
\* tells whether that release ended in the panic of Drop
BuildInner(e, level, bw) ==
  CASE CreateCodec(e) = "gz" ->
         {[res |-> "ok", panic |-> FALSE,
           st |-> NewDetectWriter([bw EXCEPT !.codec = "gz",
                                             !.lvl = into_flate2_compression(level),
                                             !.hdr = <<GzMagic>>,
                                             !.made = Append(@, "codec")])]}
    [] CreateCodec(e) = "lz4" ->
         IF ~into_lz4_level(level).ok
         THEN {[res |-> "invalid_input", panic |-> d.panic, st |-> d.st]
               : d \in ReleaseUnbuilt(bw)}
         ELSE UNION {IF b.ok
                     THEN {[res |-> "ok", panic |-> FALSE,
                            st |-> NewDetectWriter([b.st EXCEPT !.slot = TRUE,
                                                               !.made = Append(@, "codec")])]}
                     ELSE {[res |-> "io_err", panic |-> d.panic, st |-> d.st]
                           : d \in ReleaseUnbuilt(b.st)}
                     : b \in Lz4Build([bw EXCEPT !.codec = "lz4",
                                                 !.lvl = into_lz4_level(level).v])}
    [] OTHER -> {[res |-> "ok", panic |-> FALSE, st |-> NewDetectWriter(bw)]}

\* output the chain still held when it was released: it never reaches the file
Unwritten(s) ==
  \/ s.buf # <<>>
  \/ s.codec = "gz" /\ (s.hdr # <<>> \/ s.zbuf # <<>> \/ ~s.zdone \/ s.crcw < Len(GzTrailer(s.all)))
  \/ s.codec = "lz4" /\ s.slot

\* what is left of a writer once it has been released: its codec and flag, the
\* count its wrapper reported, whether FinalizeLz4Encoder met an empty slot, and
\* whether output was lost with it
Released(s) ==
  [NoWriter EXCEPT !.codec = s.codec, !.not_closed = s.not_closed, !.count = s.count,
                   !.expect = s.expect, !.lost = Unwritten(s), !.made = s.made,
                   !.fin = s.fin, !.finishRes = s.finishRes]

NoObs ==
  [level |-> "None", createRes |-> "none", builderCalls |-> 0, finCalled |-> FALSE,
   innerFin |-> "none", finRet |-> "none", panicked |-> FALSE, anyErr |-> FALSE,
   lastRes |-> "none"]

PreFiles == {[exists |-> FALSE, data |-> <<>>], [exists |-> TRUE, data |-> <<1, 0>>]}

NoReader ==
  [codec |-> "id", data |-> <<>>, clean |-> TRUE, src |-> 0, rbuf |-> <<>>, pos |-> 0,
   made |-> <<>>]

NoOp ==
  [op |-> "none", ok |-> TRUE, view |-> <<>>, fetched |-> FALSE, k |-> 0, avail |-> 0,
   before |-> 0]

Init ==
  /\ ext \in Exts
  /\ pre \in PreFiles
  /\ exists = pre.exists
  /\ disk = pre.data
  /\ wphase = "init"
  /\ w = NoWriter
  /\ accepted = <<>>
  /\ obs = NoObs
  /\ rphase = "none"
  /\ r = NoReader
  /\ got = <<>>
  /\ lastOp = NoOp

\* DetectWriter::create / create_with_wrapper
Create(level) ==
  /\ wphase = "init"
  /\ \/ \* File::create(path)? fails
        /\ wphase' = "createErr"
        /\ obs' = [obs EXCEPT !.level = level, !.createRes = "io_err", !.lastRes = "err"]
        /\ UNCHANGED <<w, exists, disk>>
     \/ \E o \in BuildInner(ext, level, NewBufWriter) :
          /\ exists' = TRUE
          /\ disk' = o.st.disk
          /\ obs' = [obs EXCEPT !.level = level, !.createRes = o.res,
                                !.builderCalls = @ + Times(o.st.made, "wrap"),
                                !.panicked = o.panic,
                                !.lastRes = IF o.panic THEN "panic"
                                            ELSE IF o.res = "ok" THEN "ok" ELSE "err"]
          /\ IF o.res = "ok"
             THEN wphase' = "live" /\ w' = Chain(o.st)
             ELSE wphase' = "createErr" /\ w' = Released(o.st)
  /\ UNCHANGED <<ext, pre, accepted, rphase, r, got, lastOp>>

\* impl Write for DetectWriter: write
Write(data) ==
  /\ wphase = "live"
  /\ Len(accepted) + Len(data) <= MaxLen
  /\ \E o \in InnerWrite(Join(w, disk), data) :
       /\ w' = Chain(o.st)
       /\ disk' = o.st.disk
       /\ accepted' = accepted \o Take(data, o.n)
       /\ obs' = [obs EXCEPT !.anyErr = @ \/ ~o.ok, !.lastRes = IF o.ok THEN "ok" ELSE "err"]
  /\ UNCHANGED <<ext, exists, pre, wphase, rphase, r, got, lastOp>>

\* impl Write for DetectWriter: flush
Flush ==
  /\ wphase = "live"
  /\ \E o \in InnerFlush(Join(w, disk)) :
       /\ w' = Chain(o.st)
       /\ disk' = o.st.disk
       /\ obs' = [obs EXCEPT !.anyErr = @ \/ ~o.ok, !.lastRes = IF o.ok THEN "ok" ELSE "err"]
  /\ UNCHANGED <<ext, exists, pre, wphase, accepted, rphase, r, got, lastOp>>

\* DetectWriter::finalize(mut self): the inner finalize, the flag, and the drop of
\* self when the call returns (on the Err path of `?` as well)
FinalizeOutcomes(s) ==
  IF s.not_closed
  THEN UNION {LET after == IF f.ok THEN [f.st EXCEPT !.not_closed = FALSE] ELSE f.st
              IN {[inner |-> IF f.ok THEN "ok" ELSE "err", panic |-> d.panic, st |-> d.st]
                  : d \in DetectDrop(after)}
              : f \in InnerFinalize(s)}
  ELSE {[inner |-> "none", panic |-> d.panic, st |-> d.st] : d \in DetectDrop(s)}

Finalize ==
  /\ wphase = "live"
  /\ \E o \in FinalizeOutcomes(Join(w, disk)) :
       /\ w' = Released(o.st)
       /\ disk' = o.st.disk
       /\ obs' = [obs EXCEPT !.finCalled = TRUE,
                             !.innerFin = o.inner,
                             !.finRet = IF o.panic THEN "panic"
                                        ELSE IF o.inner = "err" THEN "err" ELSE "ok",
                             !.panicked = o.panic,
                             !.lastRes = IF o.panic THEN "panic"
                                         ELSE IF o.inner = "err" THEN "err" ELSE "ok"]
  /\ wphase' = "gone"
  /\ UNCHANGED <<ext, exists, pre, accepted, rphase, r, got, lastOp>>

\* the writer goes out of scope without finalize
Discard ==
  /\ wphase = "live"
  /\ \E d \in DetectDrop(Join(w, disk)) :
       /\ w' = Released(d.st)
       /\ disk' = d.st.disk
       /\ obs' = [obs EXCEPT !.panicked = d.panic,
                             !.lastRes = IF d.panic THEN "panic" ELSE "dropped"]
  /\ wphase' = "gone"
  /\ UNCHANGED <<ext, exists, pre, accepted, rphase, r, got, lastOp>>

(***************************************************************************)
(* Decoders: what a read of the whole file yields, and whether the stream  *)
(* ends cleanly (clean = FALSE: the decoder reports an error after data)   *)
(***************************************************************************)
Min(a, b) == IF a < b THEN a ELSE b

\* flate2::read::GzDecoder
GzDecode(c) ==
  IF c = <<>> \/ c[1] # GzMagic THEN [data |-> <<>>, clean |-> FALSE]
  ELSE LET body == Drop(c, 1)
           n == CHOOSE k \in 0..Len(body) :
                  /\ \A i \in 1..k : IsDeflate(body[i])
                  /\ k = Len(body) \/ ~IsDeflate(body[k + 1])
           data == [i \in 1..n |-> InflateCode(body[i])]
           rest == Drop(body, n)
       IN [data |-> data,
           clean |-> /\ Len(rest) >= 3
                     /\ rest[1] = GzEnd
                     /\ SubSeq(rest, 2, 3) = GzTrailer(data)]

\* lz4::Decoder
Lz4Decode(c) ==
  IF c = <<>> \/ c[1] # Lz4Magic THEN [data |-> <<>>, clean |-> FALSE]
  ELSE LET body == Drop(c, 1)
           n == CHOOSE k \in 0..Len(body) :
                  /\ \A i \in 1..k : IsLz4Code(body[i])
                  /\ k = Len(body) \/ ~IsLz4Code(body[k + 1])
           data == [i \in 1..n |-> Lz4Uncode(body[i])]
           rest == Drop(body, n)
       IN [data |-> data,
           clean |-> /\ Len(rest) >= 2
                     /\ rest[1] = Lz4EndMark
                     /\ rest[2] = Lz4Checksum(data)]

\* the stream under the BufReader of open_with_wrapper, by codec
Decode(codec, c) ==
  CASE codec = "gz" -> GzDecode(c)
    [] codec = "lz4" -> Lz4Decode(c)
    [] OTHER -> [data |-> c, clean |-> TRUE]

(***************************************************************************)
(* DetectReader: Box<dyn BufRead> holding a BufReader over the decoder     *)
(***************************************************************************)
\* one read call on the decoder into a buffer of len bytes: some bytes while
\* there are any, then Ok(0) on a clean end or Err on a broken stream
DecoderRead(rd, len) ==
  IF rd.src < Len(rd.data)
  THEN {[st |-> [rd EXCEPT !.src = @ + n], ok |-> TRUE,
         bytes |-> SubSeq(rd.data, rd.src + 1, rd.src + n)]
        : n \in 1..Min(len, Len(rd.data) - rd.src)}
  ELSE {[st |-> rd, ok |-> rd.clean, bytes |-> <<>>]}

\* BufReader::fill_buf
fill_buf(rd) ==
  IF rd.pos >= Len(rd.rbuf)
  THEN {[st |-> IF f.ok THEN [f.st EXCEPT !.rbuf = f.bytes, !.pos = 0] ELSE rd,
         ok |-> f.ok, view |-> f.bytes, fetched |-> TRUE]
        : f \in DecoderRead(rd, RCap)}
  ELSE {[st |-> rd, ok |-> TRUE, view |-> Drop(rd.rbuf, rd.pos), fetched |-> FALSE]}

\* BufReader::consume
consume_raw(rd, amt) == [rd EXCEPT !.pos = Min(rd.pos + amt + 1, Len(rd.rbuf))]

consume(rd, amt) == [rd EXCEPT !.pos = Min(rd.pos + amt, Len(rd.rbuf))]

\* BufReader::read
BufRead(rd, len) ==
  IF rd.pos = Len(rd.rbuf) /\ len >= RCap
  THEN {[st |-> IF f.ok THEN [f.st EXCEPT !.rbuf = <<>>, !.pos = 0] ELSE rd,
         ok |-> f.ok, view |-> f.bytes, fetched |-> TRUE]
        : f \in DecoderRead(rd, len)}
  ELSE {[st |-> IF f.ok THEN consume(f.st, Min(len, Len(f.view))) ELSE f.st,
         ok |-> f.ok, view |-> Take(f.view, Min(len, Len(f.view))), fetched |-> f.fetched]
        : f \in fill_buf(rd)}

\* number of decoded bytes the reader has delivered to its caller
ReadPos == r.src - (Len(r.rbuf) - r.pos)

Avail == Len(r.rbuf) - r.pos

\* what open_with_wrapper constructs, in order: File::open, new_wrapped_reader,
\* then the decoder (if any) and the BufReader over it
OpenSteps(e) ==
  IF OpenCodec(e) = "id" THEN <<"file", "wrap", "buf">>
  ELSE <<"file", "wrap", "codec", "buf">>

\* DetectReader::open / open_with_wrapper, on the file left by the writer, in a
\* process that is still running
Open ==
  /\ wphase \in {"createErr", "gone"}
  /\ ~obs.panicked
  /\ rphase = "none"
  /\ \/ \* File::open(path)? fails
        /\ rphase' = "openErr"
        /\ UNCHANGED r
     \/ \* Lz4Decoder::new(wf)? fails
        /\ exists
        /\ OpenCodec(ext) = "lz4"
        /\ rphase' = "openErr"
        /\ r' = [r EXCEPT !.made = Take(OpenSteps(ext), 2)]
     \/ /\ exists
        /\ rphase' = "open"
        /\ r' = [codec |-> OpenCodec(ext),
                 data |-> Decode(OpenCodec(ext), disk).data,
                 clean |-> Decode(OpenCodec(ext), disk).clean,
                 src |-> 0, rbuf |-> <<>>, pos |-> 0, made |-> OpenSteps(ext)]
  /\ UNCHANGED <<ext, exists, disk, pre, wphase, w, accepted, obs, got, lastOp>>

\* impl BufRead for DetectReader: fill_buf
FillBuf ==
  /\ rphase = "open"
  /\ \E o \in fill_buf(r) :
       /\ r' = o.st
       /\ lastOp' = [op |-> "fill_buf", ok |-> o.ok, view |-> o.view, fetched |-> o.fetched,
                     k |-> 0, avail |-> Avail, before |-> ReadPos]
  /\ UNCHANGED <<ext, exists, disk, pre, wphase, w, accepted, obs, rphase, got>>

\* impl BufRead for DetectReader: consume
Consume(k) ==
  /\ rphase = "open"
  /\ r' = consume(r, k)
  /\ got' = got \o SubSeq(r.rbuf, r.pos + 1, Min(r.pos + k, Len(r.rbuf)))
  /\ lastOp' = [op |-> "consume", ok |-> TRUE, view |-> <<>>, fetched |-> FALSE,
                k |-> k, avail |-> Avail, before |-> ReadPos]
  /\ UNCHANGED <<ext, exists, disk, pre, wphase, w, accepted, obs, rphase>>

\* impl Read for DetectReader: read into a buffer of len bytes
Read(len) ==
  /\ rphase = "open"
  /\ \E o \in BufRead(r, len) :
       /\ r' = o.st
       /\ got' = IF o.ok THEN got \o o.view ELSE got
       /\ lastOp' = [op |-> "read", ok |-> o.ok, view |-> o.view, fetched |-> o.fetched,
                     k |-> len, avail |-> Avail, before |-> ReadPos]
  /\ UNCHANGED <<ext, exists, disk, pre, wphase, w, accepted, obs, rphase>>

Next ==
  \/ \E level \in Levels : Create(level)
  \/ \E data \in Chunks : Write(data)
  \/ Flush
  \/ Finalize
  \/ Discard
  \/ Open
  \/ FillBuf
  \/ \E k \in 0..MaxAsk : Consume(k)
  \/ \E len \in 1..MaxAsk : Read(len)

Spec == Init /\ [][Next]_vars

(***************************************************************************)
(* Properties                                                              *)
(***************************************************************************)
WriterGone == wphase = "gone"

\* the reader has been told the stream is over: a read or a fill_buf gave no bytes
AtEof == rphase = "open" /\ lastOp.op \in {"read", "fill_buf"} /\ lastOp.ok /\ lastOp.view = <<>>

\* C1: over the life of every constructed writer exactly one of "finalize was
\* called on it" and "the process terminated abnormally" happens, never both
\* and never neither.
C1_ExactlyOneOfFinalizeOrPanic ==
  WriterGone => (obs.finCalled /\ ~obs.panicked) \/ (~obs.finCalled /\ obs.panicked)

\* C2: a writer released without finalize ever having been called on it ends in
\* the panic of Drop, whatever was written or flushed before and however those
\* calls ended.
C2_UnfinalizedDropPanics ==
  (WriterGone /\ ~obs.finCalled) => obs.panicked

C2_Witness ==
  /\ WriterGone /\ ~obs.finCalled /\ obs.panicked
  /\ w.codec = "lz4" /\ obs.anyErr /\ accepted # <<>>

\* C3: when the inner finalize step fails, finalize hands the error to its
\* caller as a value and the call does not end in the panic.
C3_FinalizeErrorIsReturned ==
  obs.innerFin = "err" => (obs.finRet = "err" /\ ~obs.panicked)

\* C4: after writes and flushes that all succeeded on a .gz or .lz4 path and a
\* finalize that returned Ok, reading the path never fails and at end of stream
\* has delivered exactly the written payload.
C4_RoundTrip ==
  (rphase = "open" /\ ext \in {<<"gz">>, <<"lz4">>} /\ obs.finRet = "ok" /\ ~obs.anyErr)
    => /\ lastOp.ok
       /\ AtEof => got = accepted

\* the round trip does hold whenever the release of the chain lost nothing
RoundTripUnlessLost ==
  (rphase = "open" /\ ext \in {<<"gz">>, <<"lz4">>} /\ obs.finRet = "ok" /\ ~obs.anyErr
     /\ ~w.lost)
    => /\ lastOp.ok
       /\ AtEof => got = accepted

\* the codec the specification assigns to an extension
CodecOf(e) == IF e = <<"gz">> THEN "gz" ELSE IF e = <<"lz4">> THEN "lz4" ELSE "id"

\* C5: the codec is a function of the extension alone, compared case-sensitively
\* ("gz" gzip, "lz4" LZ4, anything else or nothing identity), and open and create
\* choose the same codec for the same path.
C5_Dispatch ==
  /\ obs.createRes = "ok" => w.codec = CodecOf(ext)
  /\ rphase = "open" => r.codec = CodecOf(ext)
  /\ (obs.createRes = "ok" /\ rphase = "open") => r.codec = w.codec

C5_Witness ==
  /\ obs.createRes = "ok" /\ rphase = "open"
  /\ ext = <<"GZ">> /\ w.codec = "id" /\ r.codec = "id"

\* C6: on a gzip target every level maps to a backend parameter (None 0,
\* Minimum 1, Maximum 9) and creation never fails with the invalid-level error;
\* on an LZ4 target Minimum maps to 1 and Maximum to 3, and None yields the
\* invalid-input error as soon as the level is looked at, never a writer.
C6_LevelMapping ==
  /\ (obs.createRes # "none" /\ CodecOf(ext) = "gz")
       => /\ obs.createRes # "invalid_input"
          /\ obs.builderCalls = 1 => obs.createRes = "ok"
          /\ wphase = "live"
               => w.lvl = (CASE obs.level = "None" -> 0
                             [] obs.level = "Minimum" -> 1
                             [] obs.level = "Maximum" -> 9)
  /\ (obs.createRes # "none" /\ CodecOf(ext) = "lz4")
       => /\ obs.level = "None"
               => /\ obs.createRes # "ok"
                  /\ wphase = "createErr"
                  /\ obs.builderCalls = 1 => obs.createRes = "invalid_input"
          /\ obs.level # "None" => obs.createRes # "invalid_input"
          /\ wphase = "live"
               => w.lvl = (CASE obs.level = "Minimum" -> 1
                             [] obs.level = "Maximum" -> 3)
  /\ (obs.createRes # "none" /\ CodecOf(ext) = "id") => obs.createRes # "invalid_input"

C6_Witness ==
  /\ ext = <<"lz4">> /\ obs.level = "None"
  /\ obs.createRes = "invalid_input" /\ wphase = "createErr"

\* C7: when create fails on the invalid LZ4 level, the file at the path has not
\* been touched and the wrapper builder has not been handed a file.
C7_InvalidLevelLeavesFileAlone ==
  obs.createRes = "invalid_input"
    => /\ exists = pre.exists
       /\ disk = pre.data
       /\ obs.builderCalls = 0

\* C8: on a path whose extension is not "gz" or "lz4", after a finalize that
\* returned Ok the file holds exactly the bytes the write calls accepted, in
\* order, and a reader of the path is handed those stored bytes unchanged.
C8_IdentityBytes ==
  (CodecOf(ext) = "id" /\ obs.finRet = "ok")
    => /\ disk = accepted
       /\ rphase = "open"
            => /\ lastOp.ok
               /\ Len(got) <= Len(disk)
               /\ got = Take(disk, Len(got))
               /\ AtEof => got = disk

C8_Witness ==
  /\ ext = <<"GZ">> /\ obs.finRet = "ok" /\ obs.anyErr
  /\ AtEof /\ got = accepted /\ Len(accepted) >= 2

\* C9: every byte in the file went through the wrapper, so its count is the
\* size of the file; after a finalize that returned Ok that is the number of
\* bytes written on an uncompressed target, and on a compressed target the size
\* of the coded stream, which then holds every byte the write calls accepted.
C9_WrapperCount ==
  /\ obs.createRes = "ok" => w.count = Len(disk)
  /\ (obs.finRet = "ok" /\ w.codec = "id") => w.count = Len(accepted)
  /\ (obs.finRet = "ok" /\ w.codec # "id" /\ ~obs.anyErr)
       => /\ Decode(w.codec, disk).data = accepted
          /\ w.count >= 1 + Len(accepted)

C9_Witness ==
  /\ obs.finRet = "ok" /\ w.codec = "gz" /\ Len(accepted) >= 2
  /\ w.count = Len(disk) /\ w.count > Len(accepted) /\ ~w.lost

\* C10: a fill_buf that succeeds shows the stream from the read position on, and
\* shows at least one byte while undelivered bytes remain; consume(k) with k at
\* most the bytes on view moves the read position by exactly k; bytes still
\* buffered are shown again without a fetch from the stream below.
C10_PeekConsume ==
  rphase = "open"
    => /\ ReadPos = Len(got)
       /\ (lastOp.op = "fill_buf" /\ lastOp.ok)
            => /\ lastOp.view = SubSeq(r.data, ReadPos + 1, ReadPos + Len(lastOp.view))
               /\ ReadPos < Len(r.data) => lastOp.view # <<>>
               /\ lastOp.avail > 0 => (~lastOp.fetched /\ Len(lastOp.view) = lastOp.avail)
       /\ (lastOp.op = "consume" /\ lastOp.k <= lastOp.avail)
            => /\ ReadPos = lastOp.before + lastOp.k
               /\ Avail = lastOp.avail - lastOp.k

C10_Witness ==
  /\ rphase = "open" /\ r.codec = "lz4"
  /\ lastOp.op = "fill_buf" /\ lastOp.ok /\ ~lastOp.fetched
  /\ lastOp.avail > 0 /\ r.pos > 0 /\ ReadPos > 0

\* C11: finalizing an LZ4 writer flushes the encoder first and then completes the
\* frame, each at most once; the result of the completion is the result of the
\* finalize step; when the flush fails the frame is not completed, and no
\* end-of-frame mark reaches the file
C11_Lz4FlushThenFinish ==
  w.codec = "lz4" =>
    /\ w.fin \in {<<>>, <<"flush">>, <<"flush", "finish">>}
    /\ (w.fin # <<>>) <=> obs.finCalled
    /\ w.fin = <<"flush">> =>
         /\ obs.innerFin = "err"
         /\ w.finishRes = "none"
         /\ \A i \in 1..Len(disk) : disk[i] # Lz4EndMark
    /\ w.fin = <<"flush", "finish">> => obs.innerFin = w.finishRes

C11_Witness ==
  /\ w.codec = "lz4"
  /\ accepted # <<>>
  /\ w.fin = <<"flush", "finish">>
  /\ obs.innerFin = "ok"

C11_WitnessFlushFails ==
  /\ w.codec = "lz4"
  /\ w.fin = <<"flush">>

C11_WitnessFinishFails ==
  /\ w.codec = "lz4"
  /\ w.finishRes = "err"

\* C12: once finalize of a .gz writer has returned Ok, the file holds the whole
\* gzip stream: header, deflate data, end of the deflate stream and the trailer
\* (checksum and length) of the accepted bytes.
C12_GzTrailerWritten ==
  (w.codec = "gz" /\ obs.finRet = "ok")
    => /\ GzDecode(disk).clean
       /\ GzDecode(disk).data = accepted

\* C13: whenever finalize returns Ok, for every codec, nothing of the output was
\* dropped by a destructor whose write failed, and the file holds the complete
\* stream.
C13_NoHiddenFailure ==
  obs.finRet = "ok" => (~w.lost /\ Decode(w.codec, disk).clean)

\* C14: the finalized flag is monotone. A writer is constructed with
\* not_closed = TRUE; write and flush leave the flag alone whether they succeed
\* or fail; the flag is cleared only in finalize, after the inner finalize step
\* has succeeded; once cleared it is never set again.
C14_FlagMonotone ==
  [][/\ (wphase # "live" /\ wphase' = "live") => w'.not_closed
     /\ (wphase = "live" /\ wphase' = "live") => (w.not_closed /\ w'.not_closed)
     /\ (w.not_closed /\ ~w'.not_closed)
          => (wphase = "live" /\ wphase' = "gone" /\ obs'.finCalled /\ obs'.innerFin = "ok")
     /\ (wphase = "live" /\ obs'.finCalled /\ obs'.innerFin # "ok") => w'.not_closed
     /\ (wphase \in {"live", "gone"} /\ ~w.not_closed) => ~w'.not_closed]_vars

C14_Witness ==
  /\ wphase = "gone"
  /\ obs.anyErr
  /\ accepted # <<>>
  /\ obs.innerFin = "ok"
  /\ ~w.not_closed

C14_WitnessStaysSet ==
  /\ wphase = "gone"
  /\ obs.innerFin = "err"
  /\ w.not_closed

\* C15: through the DetectWriter API no write, flush or finalize reaches an LZ4
\* encoder slot that was already emptied: the slot is occupied whenever the
\* writer is live, and the "writer already finalized" panic never happens.
C15_NoUseAfterFinalize ==
  /\ ~w.expect
  /\ (wphase = "live" /\ w.codec = "lz4") => w.slot
  /\ (w.codec = "lz4" /\ w.fin = <<"flush", "finish">>) => wphase = "gone"

C15_Witness ==
  /\ w.codec = "lz4"
  /\ wphase = "gone"
  /\ accepted # <<>>
  /\ obs.finCalled
  /\ w.fin = <<"flush", "finish">>
  /\ ~w.expect

\* the wrapper builder ran exactly once, right after the raw handle was obtained
\* and before anything else was constructed
WrappedOnce(steps) ==
  /\ Len(steps) >= 2
  /\ steps[1] = "file"
  /\ steps[2] = "wrap"
  /\ Times(steps, "file") = 1
  /\ Times(steps, "wrap") = 1
  /\ \A i \in 3..Len(steps) : steps[i] \in {"codec", "buf"}

\* C16: in open_with_wrapper and create_with_wrapper the wrapper builder runs
\* exactly once per raw handle obtained, after File::open / File::create and
\* before any codec or buffer is constructed, in the same way for .gz, .lz4 and
\* every other path; it does not run when the raw open or create fails; the
\* codec sits on the wrapper, so every byte that reaches the file was counted
\* by it.
C16_BuilderOncePerHandle ==
  /\ obs.createRes # "none" =>
       /\ w.made = <<>> => (obs.createRes = "io_err" /\ obs.builderCalls = 0)
       /\ w.made # <<>> =>
            /\ WrappedOnce(w.made)
            /\ obs.builderCalls = 1
            /\ w.count = Len(disk)
       /\ obs.createRes = "ok" =>
            w.made = IF CodecOf(ext) = "id" THEN <<"file", "wrap", "buf">>
                     ELSE <<"file", "wrap", "buf", "codec">>
  /\ rphase # "none" =>
       /\ ~exists => r.made = <<>>
       /\ r.made # <<>> => WrappedOnce(r.made)
       /\ rphase = "open" =>
            r.made = IF CodecOf(ext) = "id" THEN <<"file", "wrap", "buf">>
                     ELSE <<"file", "wrap", "codec", "buf">>

C16_Witness ==
  /\ obs.createRes = "ok"
  /\ obs.builderCalls = 1
  /\ ext = <<"lz4">>
  /\ accepted # <<>>
  /\ rphase = "open"
  /\ Times(w.made, "wrap") = 1
  /\ Times(r.made, "wrap") = 1

C16_WitnessRawFails ==
  /\ obs.createRes = "io_err"
  /\ w.made = <<>>
  /\ rphase = "openErr"
  /\ r.made = <<>>

\* C17: when create / create_with_wrapper returns an error (raw creation failed,
\* the LZ4 level is invalid, or the LZ4 encoder could not be built), no
\* DetectWriter was constructed, nothing is left to finalize, and releasing what
\* had been built does not end in the panic of Drop.
C17_FailedCreateNoPanic ==
  obs.createRes \in {"io_err", "invalid_input"} =>
    /\ wphase = "createErr"
    /\ ~w.not_closed
    /\ ~obs.panicked
    /\ obs.lastRes = "err"
    /\ ~obs.finCalled

C17_Witness ==
  /\ ext = <<"lz4">>
  /\ obs.createRes = "io_err"
  /\ w.made = <<"file", "wrap", "buf">>
  /\ wphase = "createErr"
  /\ rphase # "none"

C17_WitnessInvalidLevel ==
  /\ obs.createRes = "invalid_input"
  /\ wphase = "createErr"
  /\ rphase # "none"
====
